---- MODULE Spec2Model ----
(***************************************************************************)
(* Model of guestfs_impl_inspect_get_osinfo (lib/inspect-osinfo.c): the    *)
(* resolver that maps the inspection facts of one root (type, distro,      *)
(* major/minor version, Windows product name/variant and build id) to a    *)
(* libosinfo short id, the string "unknown", or NULL (failure).            *)
(*                                                                         *)
(* One run of the function is one behaviour.  Every call of an inspection  *)
(* accessor is a step whose returned value is chosen from a small set, so  *)
(* the order and the number of accessor calls are part of the state.       *)
(* C strings are TLA+ strings; a char * is <<>> (NULL) or <<s>>.           *)
(***************************************************************************)
EXTENDS Integers, Sequences, FiniteSets, TLC

VARIABLES pc, type, distro, major, minor, product_name, product_variant,
          build_id_str, ret, calls

vars == <<pc, type, distro, major, minor, product_name, product_variant,
          build_id_str, ret, calls>>

(***************************************************************************)
(* Bounds of the model.                                                    *)
(***************************************************************************)
\* the version accessors return an int in -MaxNeg..MaxMajor (major) and
\* -MaxNeg..MaxMinor (minor)
MaxMajor == 16
MaxMinor == 10
MaxNeg == 1

(***************************************************************************)
(* char * values.                                                          *)
(***************************************************************************)
NULL == <<>>
S(s) == <<s>>
Str(p) == p[1]

(***************************************************************************)
(* libc helpers, computed character by character.                          *)
(***************************************************************************)
\* memcmp of lit against s at offset i (1-based), FALSE past the end of s
At(s, i, lit) ==
  /\ i + Len(lit) - 1 <= Len(s)
  /\ SubSeq(s, i, i + Len(lit) - 1) = lit

\* strstr (haystack, needle) != NULL
strstr(haystack, needle) ==
  \/ needle = ""
  \/ \E i \in 1..(Len(haystack) - Len(needle) + 1) : At(haystack, i, needle)

Digit(d) == SubSeq("0123456789", d + 1, d + 1)

RECURSIVE FmtNat(_)
FmtNat(n) == IF n < 10 THEN Digit(n) ELSE FmtNat(n \div 10) \o Digit(n % 10)

\* printf "%d"
FmtD(n) == IF n < 0 THEN "-" \o FmtNat(-n) ELSE FmtNat(n)

\* printf "%02d": zero padding to a field width of 2, the sign counts
Fmt02D(n) == IF Len(FmtD(n)) >= 2 THEN FmtD(n)
             ELSE "0" \o FmtD(n)

\* asprintf (fmt, args...) for the conversions the file uses: %s, %d, %02d
RECURSIVE Format(_, _, _)
Format(fmt, i, args) ==
  IF i > Len(fmt) THEN ""
  ELSE IF At(fmt, i, "%s")
       THEN Head(args) \o Format(fmt, i + 2, Tail(args))
  ELSE IF At(fmt, i, "%d")
       THEN FmtD(Head(args)) \o Format(fmt, i + 2, Tail(args))
  ELSE IF At(fmt, i, "%02d")
       THEN Fmt02D(Head(args)) \o Format(fmt, i + 4, Tail(args))
  ELSE SubSeq(fmt, i, i) \o Format(fmt, i + 1, args)

safe_asprintf(fmt, args) == S(Format(fmt, 1, args))
safe_strdup(s) == S(s)

(***************************************************************************)
(* The Linux table (linux_map) and its scan.                               *)
(***************************************************************************)
LinuxRule(d, f, m) == [distro |-> d, fmt |-> f, min_major |-> m]

linux_map == <<
  LinuxRule("centos",    S("%s%d"),       8),
  LinuxRule("centos",    S("%s%d.0"),     7),
  LinuxRule("centos",    S("%s%d.%d"),    6),
  LinuxRule("circle",    S("%s%d"),       8),
  LinuxRule("rocky",     S("%s%d"),       8),
  LinuxRule("debian",    S("%s%d"),       4),
  LinuxRule("fedora",    S("%s%d"),      -1),
  LinuxRule("mageia",    S("%s%d"),      -1),
  LinuxRule("ubuntu",    S("%s%d.%02d"), -1),
  LinuxRule("archlinux", NULL,           -1),
  LinuxRule("gentoo",    NULL,           -1),
  LinuxRule("voidlinux", NULL,           -1),
  LinuxRule("altlinux",  S("%s%d.%d"),    8),
  LinuxRule("altlinux",  S("%s%d.%d"),   -1) >>

\* mutation: the version floor compared with > instead of >=
LinuxRuleMatches_Mut(r, d, maj) ==
  /\ d = r.distro
  /\ (r.min_major = -1 \/ maj > r.min_major)

\* the condition of the if inside the loop over linux_map
LinuxRuleMatches(r, d, maj) ==
  /\ d = r.distro
  /\ (r.min_major = -1 \/ maj >= r.min_major)

\* the loop over linux_map from index i: the index of the first rule that
\* matches, 0 when the loop reaches the terminating entry
RECURSIVE LinuxScan(_, _, _)
LinuxScan(i, d, maj) ==
  IF i > Len(linux_map) THEN 0
  ELSE IF LinuxRuleMatches(linux_map[i], d, maj) THEN i
  ELSE LinuxScan(i + 1, d, maj)

\* the return statement of a matching rule
LinuxRender(r, d, maj, min) ==
  IF r.fmt # NULL THEN safe_asprintf(Str(r.fmt), <<d, maj, min>>)
  ELSE safe_strdup(d)

\* mutation: the sle/sles boundary off by one
SlesId_Mut(maj, min) ==
  LET base == IF maj > 15 THEN "sle" ELSE "sles"
  IN  IF min = 0 THEN safe_asprintf("%s%d", <<base, maj>>)
      ELSE safe_asprintf("%s%dsp%d", <<base, maj, min>>)

\* special handling for SLES
SlesId(maj, min) ==
  LET base == IF maj >= 15 THEN "sle" ELSE "sles"
  IN  IF min = 0 THEN safe_asprintf("%s%d", <<base, maj>>)
      ELSE safe_asprintf("%s%dsp%d", <<base, maj, min>>)

\* mutation: the fallback looks at the major version only
LinuxFallbackApplies_Mut(d, maj, min) == d # "unknown" /\ maj > 0

\* the condition of the fallback for unknown distros with version
LinuxFallbackApplies(d, maj, min) == d # "unknown" /\ (maj > 0 \/ min > 0)

\* the whole linux branch, falling through to the final "unknown"
LinuxId(d, maj, min) ==
  LET i == LinuxScan(1, d, maj)
  IN  IF i # 0 THEN LinuxRender(linux_map[i], d, maj, min)
      ELSE IF d = "sles" THEN SlesId(maj, min)
      ELSE IF LinuxFallbackApplies(d, maj, min)
           THEN safe_asprintf("%s%d.%d", <<d, maj, min>>)
      ELSE safe_strdup("unknown")

\* the BSD family
IsBsd(t) == t = "freebsd" \/ t = "netbsd" \/ t = "openbsd"

\* mutation: the BSD family treated like the Linux fallback
BsdId_Mut(d, maj, min) ==
  IF LinuxFallbackApplies(d, maj, min)
  THEN safe_asprintf("%s%d.%d", <<d, maj, min>>)
  ELSE safe_strdup("unknown")

BsdId(d, maj, min) == safe_asprintf("%s%d.%d", <<d, maj, min>>)

\* mutation: every DOS distro taken for MS-DOS
DosId_Mut(d) == safe_strdup("msdos6.22")

\* DOS
DosId(d) == IF d = "msdos" THEN safe_strdup("msdos6.22")
            ELSE safe_strdup("unknown")

(***************************************************************************)
(* The Windows table (win_map), its scan and the build id sub-case.        *)
(***************************************************************************)
WinRule(maj, min, id, v, n) ==
  [major |-> maj, minor |-> min, id |-> id,
   variant_contains |-> v, name_contains |-> n]

\* mutation: at 5.2 the generic win2k3 rule moved before win2k3r2
win_map_Mut == <<
  WinRule(5,  1, "winxp",     NULL,        NULL),
  WinRule(5,  2, "winxp",     NULL,        S("XP")),
  WinRule(5,  2, "win2k3",    NULL,        NULL),
  WinRule(5,  2, "win2k3r2",  NULL,        S("R2")),
  WinRule(6,  0, "winvista",  NULL,        NULL),
  WinRule(6,  0, "win2k8",    S("Server"), NULL),
  WinRule(6,  1, "win7",      NULL,        NULL),
  WinRule(6,  1, "win2k8r2",  S("Server"), NULL),
  WinRule(6,  2, "win8",      NULL,        NULL),
  WinRule(6,  2, "win2k12",   S("Server"), NULL),
  WinRule(6,  3, "win8.1",    NULL,        NULL),
  WinRule(6,  3, "win2k12r2", S("Server"), NULL),
  WinRule(10, 0, "win2k25",   S("Server"), S("2025")),
  WinRule(10, 0, "win2k22",   S("Server"), S("2022")),
  WinRule(10, 0, "win2k19",   S("Server"), S("2019")),
  WinRule(10, 0, "win2k16",   S("Server"), NULL) >>

win_map == <<
  WinRule(5,  1, "winxp",     NULL,        NULL),
  WinRule(5,  2, "winxp",     NULL,        S("XP")),
  WinRule(5,  2, "win2k3r2",  NULL,        S("R2")),
  WinRule(5,  2, "win2k3",    NULL,        NULL),
  WinRule(6,  0, "winvista",  NULL,        NULL),
  WinRule(6,  0, "win2k8",    S("Server"), NULL),
  WinRule(6,  1, "win7",      NULL,        NULL),
  WinRule(6,  1, "win2k8r2",  S("Server"), NULL),
  WinRule(6,  2, "win8",      NULL,        NULL),
  WinRule(6,  2, "win2k12",   S("Server"), NULL),
  WinRule(6,  3, "win8.1",    NULL,        NULL),
  WinRule(6,  3, "win2k12r2", S("Server"), NULL),
  WinRule(10, 0, "win2k25",   S("Server"), S("2025")),
  WinRule(10, 0, "win2k22",   S("Server"), S("2022")),
  WinRule(10, 0, "win2k19",   S("Server"), S("2019")),
  WinRule(10, 0, "win2k16",   S("Server"), NULL) >>

\* the condition of the if inside the loop over win_map
WinRuleMatches(r, maj, min, variant, name) ==
  /\ maj = r.major
  /\ min = r.minor
  /\ (r.variant_contains = NULL \/ strstr(variant, Str(r.variant_contains)))
  /\ (r.name_contains = NULL \/ strstr(name, Str(r.name_contains)))

\* the loop over win_map from index i: the index of the first rule that
\* matches, 0 when the loop reaches the terminating entry
RECURSIVE WinScan(_, _, _, _, _)
WinScan(i, maj, min, variant, name) ==
  IF i > Len(win_map) THEN 0
  ELSE IF WinRuleMatches(win_map[i], maj, min, variant, name) THEN i
  ELSE WinScan(i + 1, maj, min, variant, name)

\* mutation: the client sub-case entered for every minor version of 10
WinClientCase_Mut(maj, min, variant) ==
  maj = 10 /\ ~strstr(variant, "Server")

\* the condition guarding the Windows >= 10 client sub-case
WinClientCase(maj, min, variant) ==
  maj = 10 /\ min = 0 /\ ~strstr(variant, "Server")

\* first build of Windows 11
Win11Build == 22000

\* mutation: the Windows 11 threshold compared with > instead of >=
WinClientId_Mut(build_id) ==
  IF build_id > Win11Build THEN safe_strdup("win11")
  ELSE safe_strdup("win10")

\* the id chosen from a parsed build id
WinClientId(build_id) ==
  IF build_id >= Win11Build THEN safe_strdup("win11")
  ELSE safe_strdup("win10")

\* guestfs_int_parse_unsigned_int: the value of a string of decimal digits,
\* -1 when the string is not one
IsDigit(c) == strstr("0123456789", c)

RECURSIVE DigitValue(_, _)
DigitValue(c, d) ==
  IF Digit(d) = c THEN d ELSE DigitValue(c, d + 1)

RECURSIVE ParseDigits(_, _, _)
ParseDigits(str, i, acc) ==
  IF i > Len(str) THEN acc
  ELSE ParseDigits(str, i + 1, acc * 10 + DigitValue(SubSeq(str, i, i), 0))

guestfs_int_parse_unsigned_int(str) ==
  IF Len(str) > 0 /\ \A i \in 1..Len(str) : IsDigit(SubSeq(str, i, i))
  THEN ParseDigits(str, 1, 0)
  ELSE -1

(***************************************************************************)
(* What the inspection accessors may return.                               *)
(***************************************************************************)
Types == {"linux", "freebsd", "netbsd", "openbsd", "dos", "windows",
          "hurd", "unknown"}

Distros == {"centos", "circle", "rocky", "debian", "fedora", "mageia",
            "ubuntu", "archlinux", "gentoo", "voidlinux", "altlinux",
            "sles", "unknown", "msdos", "freedos", "mysterydistro",
            "freebsd", "windows"}

Majors == (-MaxNeg)..MaxMajor
Minors == (-MaxNeg)..MaxMinor

ProductNames == {"", "Windows XP", "Windows Server 2003 R2",
                 "Windows Server 2003", "Windows XP R2", "xp r2",
                 "Windows Server 2025", "Windows Server 2022",
                 "Windows Server 2019 (2025 preview)", "Windows 10 Pro"}

ProductVariants == {"", "Client", "Server", "Server Core", "server"}

BuildIds == {"19045", "26100", "22000", "21999", "0", "", "abc",
             "22000x", "-1"}

Opt(set) == {NULL} \cup {S(s) : s \in set}

(***************************************************************************)
(* The function, one step per accessor call.                               *)
(***************************************************************************)
Init ==
  /\ pc = "get_type"
  /\ type = NULL
  /\ distro = NULL
  /\ major = 0
  /\ minor = 0
  /\ product_name = NULL
  /\ product_variant = NULL
  /\ build_id_str = NULL
  /\ ret = NULL
  /\ calls = <<>>

Return(r) == ret' = r /\ pc' = "done"

\* type = guestfs_inspect_get_type (g, root)
GetType ==
  /\ pc = "get_type"
  /\ \E t \in Opt(Types) : type' = t
  /\ calls' = Append(calls, "get_type")
  /\ pc' = "get_distro"
  /\ UNCHANGED <<distro, major, minor, product_name, product_variant,
                 build_id_str, ret>>

\* distro = guestfs_inspect_get_distro (g, root);
\* if (!type || !distro) return NULL
GetDistro ==
  /\ pc = "get_distro"
  /\ \E d \in Opt(Distros) : distro' = d
  /\ calls' = Append(calls, "get_distro")
  /\ IF type = NULL \/ distro' = NULL
     THEN Return(NULL)
     ELSE pc' = "get_major" /\ ret' = ret
  /\ UNCHANGED <<type, major, minor, product_name, product_variant,
                 build_id_str>>

\* major = guestfs_inspect_get_major_version (g, root)
GetMajorVersion ==
  /\ pc = "get_major"
  /\ \E v \in Majors : major' = v
  /\ calls' = Append(calls, "get_major_version")
  /\ pc' = "get_minor"
  /\ UNCHANGED <<type, distro, minor, product_name, product_variant,
                 build_id_str, ret>>

\* minor = guestfs_inspect_get_minor_version (g, root)
GetMinorVersion ==
  /\ pc = "get_minor"
  /\ \E v \in Minors : minor' = v
  /\ calls' = Append(calls, "get_minor_version")
  /\ pc' = "branch"
  /\ UNCHANGED <<type, distro, major, product_name, product_variant,
                 build_id_str, ret>>

\* if (STREQ (type, "linux")) { ... } and the final return
LinuxBranch ==
  /\ pc = "branch"
  /\ Str(type) = "linux"
  /\ Return(LinuxId(Str(distro), major, minor))
  /\ UNCHANGED <<type, distro, major, minor, product_name, product_variant,
                 build_id_str, calls>>

\* else if (STREQ (type, "freebsd") || ...) return ...
BsdBranch ==
  /\ pc = "branch"
  /\ IsBsd(Str(type))
  /\ Return(BsdId(Str(distro), major, minor))
  /\ UNCHANGED <<type, distro, major, minor, product_name, product_variant,
                 build_id_str, calls>>

\* else if (STREQ (type, "dos")) { ... } and the final return
DosBranch ==
  /\ pc = "branch"
  /\ Str(type) = "dos"
  /\ Return(DosId(Str(distro)))
  /\ UNCHANGED <<type, distro, major, minor, product_name, product_variant,
                 build_id_str, calls>>

\* no branch of the if chain is taken: return "unknown"
OtherBranch ==
  /\ pc = "branch"
  /\ Str(type) # "linux" /\ ~IsBsd(Str(type))
  /\ Str(type) # "dos" /\ Str(type) # "windows"
  /\ Return(safe_strdup("unknown"))
  /\ UNCHANGED <<type, distro, major, minor, product_name, product_variant,
                 build_id_str, calls>>

\* else if (STREQ (type, "windows")):
\* product_name = guestfs_inspect_get_product_name (g, root);
\* if (!product_name) return NULL
GetProductName ==
  /\ pc = "branch"
  /\ Str(type) = "windows"
  /\ \E n \in Opt(ProductNames) : product_name' = n
  /\ calls' = Append(calls, "get_product_name")
  /\ IF product_name' = NULL
     THEN Return(NULL)
     ELSE pc' = "get_product_variant" /\ ret' = ret
  /\ UNCHANGED <<type, distro, major, minor, product_variant, build_id_str>>

\* mutation: a missing product variant answered with "unknown"
GetProductVariant_Mut ==
  /\ pc = "get_product_variant"
  /\ \E v \in Opt(ProductVariants) : product_variant' = v
  /\ calls' = Append(calls, "get_product_variant")
  /\ IF product_variant' = NULL
     THEN Return(safe_strdup("unknown"))
     ELSE pc' = "win_scan" /\ ret' = ret
  /\ UNCHANGED <<type, distro, major, minor, product_name, build_id_str>>

\* product_variant = guestfs_inspect_get_product_variant (g, root);
\* if (!product_variant) return NULL
GetProductVariant ==
  /\ pc = "get_product_variant"
  /\ \E v \in Opt(ProductVariants) : product_variant' = v
  /\ calls' = Append(calls, "get_product_variant")
  /\ IF product_variant' = NULL
     THEN Return(NULL)
     ELSE pc' = "win_scan" /\ ret' = ret
  /\ UNCHANGED <<type, distro, major, minor, product_name, build_id_str>>

\* the loop over win_map, the test of the client sub-case and the final
\* return
WindowsScan ==
  /\ pc = "win_scan"
  /\ LET i == WinScan(1, major, minor, Str(product_variant),
                      Str(product_name))
     IN  IF i # 0 THEN Return(safe_strdup(win_map[i].id))
         ELSE IF WinClientCase(major, minor, Str(product_variant))
              THEN pc' = "get_build_id" /\ ret' = ret
         ELSE Return(safe_strdup("unknown"))
  /\ UNCHANGED <<type, distro, major, minor, product_name, product_variant,
                 build_id_str, calls>>

\* build_id_str = guestfs_inspect_get_build_id (g, root) and what follows
GetBuildId ==
  /\ pc = "get_build_id"
  /\ \E b \in Opt(BuildIds) : build_id_str' = b
  /\ calls' = Append(calls, "get_build_id")
  /\ IF build_id_str' = NULL THEN Return(NULL)
     ELSE LET build_id == guestfs_int_parse_unsigned_int(Str(build_id_str'))
          IN  IF build_id = -1 THEN Return(NULL)
              ELSE Return(WinClientId(build_id))
  /\ UNCHANGED <<type, distro, major, minor, product_name, product_variant>>

Next ==
  \/ GetType
  \/ GetDistro
  \/ GetMajorVersion
  \/ GetMinorVersion
  \/ LinuxBranch
  \/ BsdBranch
  \/ DosBranch
  \/ OtherBranch
  \/ GetProductName
  \/ GetProductVariant
  \/ WindowsScan
  \/ GetBuildId

Spec == Init /\ [][Next]_vars

(***************************************************************************)
(* Vocabulary of the properties.  The expected renderings are written with *)
(* ToString and literal strings, and the substring facts about the product *)
(* names and variants are listed by hand, so that the properties do not    *)
(* reuse the operators they check.                                         *)
(***************************************************************************)
Done == pc = "done"
Failed == ret = NULL
Called(a) == \E i \in DOMAIN calls : calls[i] = a
Count(a) == Cardinality({i \in DOMAIN calls : calls[i] = a})
CalledBefore(a, b) ==
  \E i, j \in DOMAIN calls : i < j /\ calls[i] = a /\ calls[j] = b

IsType(t) == type = S(t)
IsDistro(d) == distro = S(d)

NamesWithXP == {"Windows XP", "Windows XP R2"}
NamesWithR2 == {"Windows Server 2003 R2", "Windows XP R2"}
VariantsWithServer == {"Server", "Server Core"}

\* the non-negative integer a build id string denotes, -1 when it denotes none
ExpectedBuild(b) ==
  CASE b = "19045" -> 19045
    [] b = "26100" -> 26100
    [] b = "22000" -> 22000
    [] b = "21999" -> 21999
    [] b = "0"     -> 0
    [] OTHER       -> -1

Dotted(d, maj, min) == d \o ToString(maj) \o "." \o ToString(min)

NoLinuxRule(d, maj) ==
  \A i \in 1..Len(linux_map) : ~LinuxRuleMatches(linux_map[i], d, maj)

\* rule i is the lowest-index Linux rule matching d, maj
FirstLinuxRule(i, d, maj) ==
  /\ LinuxRuleMatches(linux_map[i], d, maj)
  /\ \A j \in 1..(i - 1) : ~LinuxRuleMatches(linux_map[j], d, maj)

NoWinRule ==
  \A i \in 1..Len(win_map) :
     ~WinRuleMatches(win_map[i], major, minor, Str(product_variant),
                     Str(product_name))

\* the function reached the Windows branch with product name and variant
WindowsWithProduct ==
  IsType("windows") /\ distro # NULL /\ product_name # NULL
  /\ product_variant # NULL

\* ... on the 10/0 client path
ClientPath ==
  WindowsWithProduct /\ major = 10 /\ minor = 0
  /\ Str(product_variant) \notin VariantsWithServer

(***************************************************************************)
(* C1.  A required fact that cannot be obtained makes the function return  *)
(* NULL, never "unknown" or an id: a NULL type or distro whatever the      *)
(* other accessor returned, and for type "windows" a NULL product name or  *)
(* product variant whatever the major/minor version.                       *)
(***************************************************************************)
C1_MissingFactFails ==
  Done =>
    /\ (type = NULL \/ distro = NULL) => Failed
    /\ (IsType("windows") /\ distro # NULL
        /\ (product_name = NULL \/ product_variant = NULL)) => Failed

\* Windows 5.1 (a row with both substrings wildcards), the product variant
\* was asked for and came back NULL
C1_Witness ==
  /\ Done /\ IsType("windows") /\ major = 5 /\ minor = 1
  /\ product_name = S("Windows XP")
  /\ Called("get_product_variant") /\ product_variant = NULL
  /\ Failed

(***************************************************************************)
(* C2.  Windows 10/11 client split: on the 10/0 path with a variant        *)
(* without "Server" the build id was asked for and alone decides: NULL     *)
(* when it is missing or is no non-negative integer, else "win11" from     *)
(* 22000 up and "win10" below, for every product name.                     *)
(***************************************************************************)
C2_ClientSplit ==
  (Done /\ ClientPath) =>
    /\ Called("get_build_id")
    /\ IF build_id_str = NULL THEN Failed
       ELSE LET b == ExpectedBuild(Str(build_id_str))
            IN  IF b < 0 THEN Failed
                ELSE IF b >= 22000 THEN ret = S("win11")
                ELSE ret = S("win10")

\* the boundary build 22000 gives win11
C2_Witness ==
  /\ Done /\ ClientPath /\ build_id_str = S("22000") /\ ret = S("win11")

(***************************************************************************)
(* C3.  In win_map a rule with wildcards sits after its more specific      *)
(* siblings of the same major/minor, so no scan returns a rule while a     *)
(* later, strictly more specific rule of the same major/minor matches the  *)
(* facts too (that later rule would be shadowed).                          *)
(***************************************************************************)
\* rule a asks for nothing that rule b does not ask for, and for less
MoreGeneral(a, b) ==
  /\ a.major = b.major /\ a.minor = b.minor
  /\ (a.variant_contains = NULL \/ a.variant_contains = b.variant_contains)
  /\ (a.name_contains = NULL \/ a.name_contains = b.name_contains)
  /\ (a.variant_contains # b.variant_contains
      \/ a.name_contains # b.name_contains)

C3_NoRuleShadowed ==
  (Done /\ WindowsWithProduct) =>
    \A i, j \in 1..Len(win_map) :
       (/\ i < j
        /\ ret = S(win_map[i].id)
        /\ WinScan(1, major, minor, Str(product_variant),
                   Str(product_name)) = i
        /\ WinRuleMatches(win_map[j], major, minor, Str(product_variant),
                          Str(product_name)))
       => ~MoreGeneral(win_map[i], win_map[j])

(***************************************************************************)
(* C4.  At Windows 5.2 a product name with "R2" and without "XP" gives     *)
(* "win2k3r2" whatever the variant, and "win2k3" is returned at 5.2 only   *)
(* for a name with neither "XP" nor "R2".                                  *)
(***************************************************************************)
C4_R2BeforeGeneric ==
  (Done /\ WindowsWithProduct /\ major = 5 /\ minor = 2) =>
    /\ (Str(product_name) \in NamesWithR2 \ NamesWithXP)
          => ret = S("win2k3r2")
    /\ ret = S("win2k3")
          => Str(product_name) \notin (NamesWithXP \cup NamesWithR2)

C4_Witness ==
  /\ Done /\ IsType("windows") /\ major = 5 /\ minor = 2
  /\ product_variant = S("")
  /\ product_name = S("Windows Server 2003 R2")
  /\ ret = S("win2k3r2")

(***************************************************************************)
(* C5.  Linux fallback.  As claimed: with no table rule matching, a distro *)
(* other than "sles" and "unknown", and major or minor NONZERO (negative   *)
(* values included), the result is distro major "." minor.                 *)
(***************************************************************************)
C5_FallbackNonzero ==
  (Done /\ IsType("linux") /\ distro # NULL
   /\ NoLinuxRule(Str(distro), major)
   /\ ~IsDistro("sles") /\ ~IsDistro("unknown")
   /\ (major # 0 \/ minor # 0))
  => ret = S(Dotted(Str(distro), major, minor))

(***************************************************************************)
(* C5, amended.  With no table rule matching, a distro other than "sles"   *)
(* and "unknown", and major or minor POSITIVE, the result is distro major  *)
(* "." minor (a negative field is printed with its sign); this includes    *)
(* table distros below their version floor.                                *)
(***************************************************************************)
C5_FallbackPositive ==
  (Done /\ IsType("linux") /\ distro # NULL
   /\ NoLinuxRule(Str(distro), major)
   /\ ~IsDistro("sles") /\ ~IsDistro("unknown")
   /\ (major > 0 \/ minor > 0))
  => ret = S(Dotted(Str(distro), major, minor))

\* debian below its floor of 4, only the minor version positive
C5_Witness ==
  /\ Done /\ IsType("linux") /\ IsDistro("debian")
  /\ major = 0 /\ minor = 3 /\ ret = S("debian0.3")

(***************************************************************************)
(* C6.  Linux first match: when a table rule matches, the result is the    *)
(* rendering of the lowest-index matching rule: centos >= 8 gives          *)
(* centos<major>, centos 7 centos7.0, centos 6 centos6.<minor>; altlinux   *)
(* >= 8 takes the specific rule and altlinux < 8 the unbounded one; ubuntu *)
(* pads the minor to two digits; a rule without template gives the distro. *)
(***************************************************************************)
Pad2(n) == IF 0 <= n /\ n < 10 THEN "0" \o ToString(n) ELSE ToString(n)

C6_FirstLinuxRule ==
  (Done /\ IsType("linux") /\ distro # NULL) =>
    LET d == Str(distro)
    IN
    /\ \A i \in 1..Len(linux_map) :
          FirstLinuxRule(i, d, major)
             => ret = LinuxRender(linux_map[i], d, major, minor)
    /\ (d = "centos" /\ major >= 8) => ret = S("centos" \o ToString(major))
    /\ (d = "centos" /\ major = 7) => ret = S("centos7.0")
    /\ (d = "centos" /\ major = 6) => ret = S("centos6." \o ToString(minor))
    /\ (d = "altlinux") =>
          /\ FirstLinuxRule(IF major >= 8 THEN 13 ELSE 14, d, major)
          /\ ret = S(Dotted(d, major, minor))
    /\ (d = "ubuntu") =>
          ret = S("ubuntu" \o ToString(major) \o "." \o Pad2(minor))
    /\ (d \in {"archlinux", "gentoo", "voidlinux"}) => ret = distro

\* centos 9.3: all three centos rules match, the first one wins
C6_Witness ==
  /\ Done /\ IsType("linux") /\ IsDistro("centos")
  /\ major = 9 /\ minor = 3 /\ ret = S("centos9")

(***************************************************************************)
(* C7.  SLES: for every major/minor the result is "sle" (major >= 15) or   *)
(* "sles" (below), then the major, then "sp" and the minor unless the      *)
(* minor is 0; never "unknown", never the dotted fallback.                 *)
(***************************************************************************)
C7_Sles ==
  (Done /\ IsType("linux") /\ IsDistro("sles")) =>
    LET base == IF major >= 15 THEN "sle" ELSE "sles"
    IN  /\ ret = S(base \o ToString(major)
                   \o (IF minor = 0 THEN "" ELSE "sp" \o ToString(minor)))
        /\ ret # S("unknown")
        /\ ret # S(Dotted("sles", major, minor))

C7_Witness ==
  /\ Done /\ IsType("linux") /\ IsDistro("sles")
  /\ major = 15 /\ minor = 0 /\ ret = S("sle15")

(***************************************************************************)
(* C8.  BSD family: for freebsd, netbsd and openbsd the result is always   *)
(* distro major "." minor, for every distro ("unknown" included) and       *)
(* every version (0/0 included); never NULL, never "unknown".              *)
(***************************************************************************)
C8_Bsd ==
  (Done /\ type \in {S("freebsd"), S("netbsd"), S("openbsd")}
   /\ distro # NULL)
  => /\ ret = S(Dotted(Str(distro), major, minor))
     /\ ~Failed
     /\ ret # S("unknown")

C8_Witness ==
  /\ Done /\ IsType("netbsd") /\ IsDistro("unknown")
  /\ major = 0 /\ minor = 0 /\ ret = S("unknown0.0")

(***************************************************************************)
(* C9.  The build id accessor is called at most once and only on the       *)
(* Windows 10/0 client path: after type, distro, product name and variant  *)
(* were obtained, with type "windows", version 10.0, a variant without     *)
(* "Server" and no win_map rule matching.  The product name and variant    *)
(* accessors are called for type "windows" only.                           *)
(***************************************************************************)
C9_BuildIdOnlyOnClientPath ==
  /\ Count("get_build_id") <= 1
  /\ Called("get_build_id") =>
        /\ ClientPath
        /\ NoWinRule
        /\ calls[Len(calls)] = "get_build_id"
        /\ \A a \in {"get_type", "get_distro", "get_product_name",
                     "get_product_variant"} :
              CalledBefore(a, "get_build_id")
  /\ (Called("get_product_name") \/ Called("get_product_variant"))
        => IsType("windows")

C9_Witness ==
  /\ Done /\ Called("get_build_id") /\ ClientPath
  /\ build_id_str = S("19045") /\ ret = S("win10")

(***************************************************************************)
(* C10.  When every fact the function asks for is obtained (and the build  *)
(* id, where asked for, denotes a non-negative integer), the function      *)
(* never returns NULL, and it returns "unknown" exactly when no rule       *)
(* applies; dos/msdos gives "msdos6.22" for every version.                 *)
(***************************************************************************)
AllObtained ==
  /\ type # NULL /\ distro # NULL
  /\ IsType("windows") =>
        /\ product_name # NULL /\ product_variant # NULL
        /\ ClientPath =>
              /\ build_id_str # NULL
              /\ ExpectedBuild(Str(build_id_str)) >= 0

NoRuleApplies ==
  \/ Str(type) \notin {"linux", "freebsd", "netbsd", "openbsd", "dos",
                       "windows"}
  \/ IsType("dos") /\ ~IsDistro("msdos")
  \/ /\ IsType("linux")
     /\ NoLinuxRule(Str(distro), major)
     /\ ~IsDistro("sles")
     /\ (IsDistro("unknown") \/ (major <= 0 /\ minor <= 0))
  \/ /\ IsType("windows")
     /\ NoWinRule
     /\ ~ClientPath

C10_UnknownIffNoRule ==
  (Done /\ AllObtained) =>
    /\ ~Failed
    /\ ret = S("unknown") <=> NoRuleApplies
    /\ (IsType("dos") /\ IsDistro("msdos")) => ret = S("msdos6.22")

\* centos below its floor of 6 and without a positive version field
C10_Witness ==
  /\ Done /\ IsType("linux") /\ IsDistro("centos")
  /\ major = -1 /\ minor = 0 /\ ret = S("unknown")

====
